---- MODULE Spec2Model ----
(***************************************************************************)
(* A model of the wildcat credit mint core: the swap engine (swap.rs) over *)
(* the in-memory proof map (persistence/inmemory.rs), the quote factory    *)
(* (credit/quotes.rs) over the in-memory quote repository, the keyset      *)
(* factory and the three-tier keys repository of the swap engine           *)
(* (credit/keys.rs).                                                       *)
(*                                                                         *)
(* Every request runs as a process that may be suspended at each call into *)
(* a repository; two specifications are given for each engine, one with a  *)
(* single caller (Seq) and one with racing callers.                        *)
(***************************************************************************)
EXTENDS Integers, Sequences, FiniteSets, TLC

\* ---------------------------------------------------------------- bounds
MaxInputs == 2
MaxOutputs == 2

\* ---------------------------------------------------------------- values
\* Option<T>: None is the empty sequence, Some(x) the one-element sequence.
None == <<>>
Some(x) == <<x>>
IsSome(o) == o # <<>>
Unwrap(o) == o[1]

Procs == {"a", "b"}

\* All sequences over S of length at most n.
SeqsUpTo(S, n) == UNION {[1..k -> S] : k \in 0..n}

RECURSIVE SumSeq(_, _)
SumSeq(s, i) == IF i > Len(s) THEN 0 ELSE s[i] + SumSeq(s, i + 1)

\* ------------------------------------------------------------ primitives
\* cdk::dhke::hash_to_curve: a hash of the secret to a curve point.
HashToCurve(secret) == <<"Y", secret>>

\* The secret key a keyset holds for an amount.
SecretKey(kid, amount) == <<"sk", kid, amount>>

\* cdk::dhke::sign_message(k, B) = k * B.
SignMessage(sk, point) == <<sk, point>>

\* A verification that accepts every signature.
VerifyMessageAny(sk, c, secret) == TRUE

\* cdk::dhke::verify_message(k, c, secret): c = k * hash_to_curve(secret).
VerifyMessage(sk, c, secret) == c = SignMessage(sk, HashToCurve(secret))

\* ------------------------------------------------------------- universes
Secrets == {"s1", "s2", "s3"}
Ys == {HashToCurve(s) : s \in Secrets}
KeysetIds == {"k1", "k2", "ku"}
KeyAmounts == {1, 2}
OutAmounts == {0, 1, 2, 3}
Blinds == {"b1"}

MkProof(kid, amount, secret, c) ==
    [keyset_id |-> kid, amount |-> amount, secret |-> secret, c |-> c]
ValidProof(kid, amount, secret) ==
    MkProof(kid, amount, secret, SignMessage(SecretKey(kid, amount), HashToCurve(secret)))
ForgedProof(kid, amount, secret) ==
    MkProof(kid, amount, secret, SignMessage(<<"sk", "forged", amount>>, HashToCurve(secret)))

\* Proofs a wallet can hold that the mint signed.
SignedProofs ==
    {ValidProof("k1", 1, "s1"), ValidProof("k1", 1, "s2"), ValidProof("k2", 2, "s3")}
\* Every proof a caller may submit.
AllProofs ==
    SignedProofs \cup {ForgedProof("k1", 1, "s1"), ValidProof("ku", 1, "s2"),
                       ValidProof("k1", 3, "s3"), ValidProof("k1", 0, "s1")}

AllOutputs == [amount : OutAmounts, blinded_secret : Blinds]

\* ------------------------------------------------- swap::KeysRepository
\* The keys repository as the swap engine sees it: load(id) and
\* replacing_id(id), both Option-valued.
MkKeyset(kid) == [id |-> kid, amounts |-> KeyAmounts]
KeyRepoStates ==
    { [load |-> [k \in KeysetIds |-> IF k = "ku" THEN None ELSE Some(MkKeyset(k))],
       replacing |-> [k \in KeysetIds |-> IF k = "ku" THEN None ELSE Some(k)]],
      [load |-> [k \in KeysetIds |-> IF k = "ku" THEN None ELSE Some(MkKeyset(k))],
       replacing |-> [k \in KeysetIds |-> IF k = "ku" THEN None ELSE Some("k2")]],
      [load |-> [k \in KeysetIds |-> IF k = "ku" THEN None ELSE Some(MkKeyset(k))],
       replacing |-> [k \in KeysetIds |-> IF k = "k1" THEN Some(k) ELSE None]] }

VARIABLES
    proofs,     \* ProofMap.proofs: y -> ProofState
    keys,       \* the keys repository handed to the swap service
    swap,       \* per caller: the swap call in progress
    okSwaps,    \* history: y -> number of swaps that returned Ok with y as input
    quotes,     \* QuotesIDMap.quotes: id -> Quote
    now,        \* the clock callers read for `submitted`
    nextId,     \* the next fresh quote id (Uuid::new_v4)
    cli,        \* per caller: the quote operation in progress
    tiers,      \* SwapRepository: the endorsed, maturity and debit tiers
    kcall,      \* the call into SwapRepository in progress
    qkeys,      \* KeysetIDQuoteIDMap.keys: (keyset id, quote id) -> entry
    fcall       \* per caller: the Factory::generate call in progress

swapVars == <<proofs, keys, swap, okSwaps>>
quoteVars == <<quotes, now, nextId, cli>>
keyVars == <<tiers, kcall, qkeys, fcall>>
vars == <<proofs, keys, swap, okSwaps, quotes, now, nextId, cli, tiers, kcall,
          qkeys, fcall>>

\* ------------------------------------------------------------- ProofMap
StateOf(m, y) == IF y \in DOMAIN m THEN m[y].state ELSE "Unspent"

\* ProofMap::get_state
GetState(m, tokens) ==
    [i \in 1..Len(tokens) |-> StateOf(m, HashToCurve(tokens[i].secret))]

\* A spend that marks only the first token.
SpendFirstOnly(m, tokens) ==
    LET ys == {HashToCurve(tokens[i].secret) : i \in 1..Len(tokens) \cap {1}}
    IN  [y \in DOMAIN m \cup ys |->
            IF y \in ys THEN [y |-> y, state |-> "Spent"] ELSE m[y]]

\* ProofMap::spend: insert Spent under y for every token.
Spend(m, tokens) ==
    LET ys == {HashToCurve(tokens[i].secret) : i \in 1..Len(tokens)}
    IN  [y \in DOMAIN m \cup ys |->
            IF y \in ys THEN [y |-> y, state |-> "Spent"] ELSE m[y]]

\* ---------------------------------------------------------- swap engine
Result(kind, info) == [kind |-> kind, info |-> info]
NoResult == Result("none", <<>>)

IdleSwap ==
    [pc |-> "idle", inputs |-> <<>>, outputs |-> <<>>, states |-> <<>>,
     ids |-> <<>>, signatures |-> <<>>, result |-> NoResult,
     calls |-> <<>>, spends |-> <<>>]

Amounts(s) == [i \in 1..Len(s) |-> s[i].amount]
TotalAmount(s) == SumSeq(Amounts(s), 1)

\* Zero-cost verifications that compare the number of inputs and outputs
\* instead of their totals.
ZeroCostChecksByCount(inputs, outputs) ==
    IF inputs = <<>> THEN Some(Result("ZeroAmount", <<>>))
    ELSE IF \E i \in 1..Len(outputs) : outputs[i].amount = 0
         THEN Some(Result("ZeroAmount", <<>>))
    ELSE IF Len(inputs) # Len(outputs)
         THEN Some(Result("UnmatchingAmount",
                          <<TotalAmount(inputs), TotalAmount(outputs)>>))
    ELSE None

\* Zero-cost verifications that compare the totals before they look for a
\* zero amount.
ZeroCostChecksTotalsFirst(inputs, outputs) ==
    IF inputs = <<>> THEN Some(Result("ZeroAmount", <<>>))
    ELSE IF TotalAmount(inputs) # TotalAmount(outputs)
         THEN Some(Result("UnmatchingAmount",
                          <<TotalAmount(inputs), TotalAmount(outputs)>>))
    ELSE IF \E i \in 1..Len(outputs) : outputs[i].amount = 0
         THEN Some(Result("ZeroAmount", <<>>))
    ELSE None

\* swap, first step: the zero-cost verifications. None when they pass.
\* The checks without the test for an empty input list.
ZeroCostChecksNoEmpty(inputs, outputs) ==
    IF \E i \in 1..Len(outputs) : outputs[i].amount = 0
    THEN Some(Result("ZeroAmount", <<>>))
    ELSE IF TotalAmount(inputs) # TotalAmount(outputs)
         THEN Some(Result("UnmatchingAmount",
                          <<TotalAmount(inputs), TotalAmount(outputs)>>))
    ELSE None

\* The checks without the test for a zero-amount output.
ZeroCostChecksNoZero(inputs, outputs) ==
    IF inputs = <<>> THEN Some(Result("ZeroAmount", <<>>))
    ELSE IF TotalAmount(inputs) # TotalAmount(outputs)
         THEN Some(Result("UnmatchingAmount",
                          <<TotalAmount(inputs), TotalAmount(outputs)>>))
    ELSE None

ZeroCostChecks(inputs, outputs) ==
    IF inputs = <<>> THEN Some(Result("ZeroAmount", <<>>))
    ELSE IF \E i \in 1..Len(outputs) : outputs[i].amount = 0
         THEN Some(Result("ZeroAmount", <<>>))
    ELSE IF TotalAmount(inputs) # TotalAmount(outputs)
         THEN Some(Result("UnmatchingAmount",
                          <<TotalAmount(inputs), TotalAmount(outputs)>>))
    ELSE None

\* The call returns res after its call of the repository method `method`;
\* calls is the log of the repository methods the call has used.
Finish(p, method, res) ==
    swap' = [swap EXCEPT ![p].pc = "done", ![p].result = res,
                         ![p].calls = Append(@, method)]

\* A call of swap(inputs, outputs), the request drawn from Requests, up to
\* its first repository call.
SwapBegin(p, Requests) ==
    /\ swap[p].pc = "idle"
    /\ \E r \in Requests :
          LET inputs == r[1]
              outputs == r[2]
              err == ZeroCostChecks(inputs, outputs)
              call == [IdleSwap EXCEPT !.inputs = inputs, !.outputs = outputs]
          IN  swap' = [swap EXCEPT ![p] =
                   IF IsSome(err)
                   THEN [call EXCEPT !.pc = "done", !.result = Unwrap(err)]
                   ELSE [call EXCEPT !.pc = "get_state"]]
    /\ UNCHANGED <<proofs, keys, okSwaps, quoteVars, keyVars>>

\* An unspent check that refuses Spent proofs only.
VerifyProofsAreNotSpent(m, tokens) ==
    \A i \in 1..Len(tokens) : GetState(m, tokens)[i] # "Spent"

\* verify_proofs_are_unspent
\* A check that lets every state pass.
VerifyProofsAreUnspentAlways(m, tokens) == TRUE

VerifyProofsAreUnspent(m, tokens) ==
    \A i \in 1..Len(tokens) : GetState(m, tokens)[i] = "Unspent"

\* An unspent check that marks the inputs spent as soon as it has read them.
SwapGetStateSpendsEarly(p, fail) ==
    /\ swap[p].pc = "get_state"
    /\ IF fail THEN Finish(p, "get_state", Result("ProofRepository", <<>>))
       ELSE IF ~VerifyProofsAreUnspent(proofs, swap[p].inputs)
            THEN swap' = [swap EXCEPT ![p].pc = "done",
                              ![p].result = Result("ProofsAlreadySpent", <<>>),
                              ![p].states = GetState(proofs, swap[p].inputs),
                              ![p].calls = Append(@, "get_state")]
       ELSE swap' = [swap EXCEPT ![p].pc = "verify",
                         ![p].states = GetState(proofs, swap[p].inputs),
                         ![p].calls = Append(@, "get_state")]
    /\ proofs' = IF fail THEN proofs ELSE Spend(proofs, swap[p].inputs)
    /\ UNCHANGED <<keys, okSwaps, quoteVars, keyVars>>

SwapGetState(p, fail) ==
    /\ swap[p].pc = "get_state"
    /\ IF fail THEN Finish(p, "get_state", Result("ProofRepository", <<>>))
       ELSE IF ~VerifyProofsAreUnspent(proofs, swap[p].inputs)
            THEN swap' = [swap EXCEPT ![p].pc = "done",
                              ![p].result = Result("ProofsAlreadySpent", <<>>),
                              ![p].states = GetState(proofs, swap[p].inputs),
                              ![p].calls = Append(@, "get_state")]
       ELSE swap' = [swap EXCEPT ![p].pc = "verify",
                         ![p].states = GetState(proofs, swap[p].inputs),
                         ![p].calls = Append(@, "get_state")]
    /\ UNCHANGED <<proofs, keys, okSwaps, quoteVars, keyVars>>

\* A signature check that does not look whether the keyset has a key for the
\* amount.
RECURSIVE VerifyProofsSignaturesNoAmount(_, _, _, _)
VerifyProofsSignaturesNoAmount(k, tokens, i, failAt) ==
    IF i > Len(tokens) THEN None
    ELSE LET proof == tokens[i]
             id == proof.keyset_id
             keyset == k.load[id]
         IN  IF failAt = i THEN Some(Result("KeysetRepository", <<>>))
             ELSE IF ~IsSome(keyset) THEN Some(Result("UnknownKeyset", <<id>>))
             ELSE IF ~VerifyMessage(SecretKey(Unwrap(keyset).id, proof.amount),
                                    proof.c, proof.secret)
                  THEN Some(Result("UnknownProofs", <<>>))
             ELSE VerifyProofsSignaturesNoAmount(k, tokens, i + 1, failAt)

\* verify_proofs_signatures from proof i on; failAt is the load call at which
\* the repository answers Err (0: never). Some(result) is an error return,
\* None is Ok(true).
RECURSIVE VerifyProofsSignatures(_, _, _, _)
VerifyProofsSignatures(k, tokens, i, failAt) ==
    IF i > Len(tokens) THEN None
    ELSE LET proof == tokens[i]
             id == proof.keyset_id
             keyset == k.load[id]
         IN  IF failAt = i THEN Some(Result("KeysetRepository", <<>>))
             ELSE IF ~IsSome(keyset) THEN Some(Result("UnknownKeyset", <<id>>))
             ELSE IF proof.amount \notin Unwrap(keyset).amounts
                  THEN Some(Result("UnknownAmountForKeyset", <<id, proof.amount>>))
             ELSE IF ~VerifyMessage(SecretKey(Unwrap(keyset).id, proof.amount),
                                    proof.c, proof.secret)
                  THEN Some(Result("UnknownProofs", <<>>))
             ELSE VerifyProofsSignatures(k, tokens, i + 1, failAt)

SwapVerifySignatures(p, failAt) ==
    /\ swap[p].pc = "verify"
    /\ failAt <= Len(swap[p].inputs)
    /\ LET err == VerifyProofsSignatures(keys, swap[p].inputs, 1, failAt)
       IN  IF IsSome(err) THEN Finish(p, "load", Unwrap(err))
           ELSE swap' = [swap EXCEPT ![p].pc = "replacing",
                             ![p].calls = Append(@, "load")]
    /\ UNCHANGED <<proofs, keys, okSwaps, quoteVars, keyVars>>

\* The replacing_id loop from input i on, ids collected so far. A pair
\* <<error, ids>>: error is Some(result) on an error return.
RECURSIVE ReplacingIds(_, _, _, _, _)
ReplacingIds(k, tokens, i, ids, failAt) ==
    IF i > Len(tokens) THEN <<None, ids>>
    ELSE LET id == tokens[i].keyset_id
             o == k.replacing[id]
         IN  IF failAt = i THEN <<Some(Result("KeysetRepository", <<>>)), ids>>
             ELSE IF ~IsSome(o) THEN <<Some(Result("UnknownKeyset", <<id>>)), ids>>
             ELSE ReplacingIds(k, tokens, i + 1, Append(ids, Unwrap(o)), failAt)

\* A replacement resolution that does not compare the ids.
SwapReplacingIdsUnchecked(p, failAt) ==
    /\ swap[p].pc = "replacing"
    /\ failAt <= Len(swap[p].inputs)
    /\ LET r == ReplacingIds(keys, swap[p].inputs, 1, <<>>, failAt)
           ids == r[2]
       IN  IF IsSome(r[1]) THEN Finish(p, "replacing_id", Unwrap(r[1]))
           ELSE swap' = [swap EXCEPT ![p].pc = "sign", ![p].ids = ids,
                             ![p].calls = Append(@, "replacing_id")]
    /\ UNCHANGED <<proofs, keys, okSwaps, quoteVars, keyVars>>

\* Service::swap: the replacing_id of every input, which must all be equal.
SwapReplacingIds(p, failAt) ==
    /\ swap[p].pc = "replacing"
    /\ failAt <= Len(swap[p].inputs)
    /\ LET r == ReplacingIds(keys, swap[p].inputs, 1, <<>>, failAt)
           ids == r[2]
       IN  IF IsSome(r[1]) THEN Finish(p, "replacing_id", Unwrap(r[1]))
           ELSE IF \E i \in 1..Len(ids) : ids[i] # ids[1]
                THEN Finish(p, "replacing_id", Result("UnmergeableProofs", <<>>))
           ELSE swap' = [swap EXCEPT ![p].pc = "sign", ![p].ids = ids,
                             ![p].calls = Append(@, "replacing_id")]
    /\ UNCHANGED <<proofs, keys, okSwaps, quoteVars, keyVars>>

\* A signing loop that returns the signatures last output first.
RECURSIVE SignOutputsReversed(_, _, _, _, _)
SignOutputsReversed(keyset, first, outputs, i, signatures) ==
    IF i > Len(outputs) THEN <<None, signatures>>
    ELSE LET output == outputs[i]
         IN  IF output.amount \notin keyset.amounts
             THEN <<Some(Result("UnknownAmountForKeyset", <<first, output.amount>>)),
                    signatures>>
             ELSE SignOutputsReversed(keyset, first, outputs, i + 1,
                    <<[amount |-> output.amount,
                       c |-> SignMessage(SecretKey(keyset.id, output.amount),
                                         output.blinded_secret),
                       keyset_id |-> keyset.id]>> \o signatures)

\* The signing loop from output i on. <<error, signatures>>.
RECURSIVE SignOutputs(_, _, _, _, _)
SignOutputs(keyset, first, outputs, i, signatures) ==
    IF i > Len(outputs) THEN <<None, signatures>>
    ELSE LET output == outputs[i]
         IN  IF output.amount \notin keyset.amounts
             THEN <<Some(Result("UnknownAmountForKeyset", <<first, output.amount>>)),
                    signatures>>
             ELSE SignOutputs(keyset, first, outputs, i + 1,
                    Append(signatures,
                        [amount |-> output.amount,
                         c |-> SignMessage(SecretKey(keyset.id, output.amount),
                                           output.blinded_secret),
                         keyset_id |-> keyset.id]))

SwapSign(p, fail) ==
    /\ swap[p].pc = "sign"
    /\ LET first == swap[p].ids[1]
           loaded == keys.load[first]
       IN  IF fail THEN Finish(p, "load", Result("KeysetRepository", <<>>))
           ELSE IF ~IsSome(loaded) THEN Finish(p, "load", Result("Panic", <<first>>))
           ELSE LET r == SignOutputs(Unwrap(loaded), first, swap[p].outputs, 1, <<>>)
                IN  IF IsSome(r[1]) THEN Finish(p, "load", Unwrap(r[1]))
                    ELSE swap' = [swap EXCEPT ![p].pc = "spend",
                                              ![p].signatures = r[2],
                                              ![p].calls = Append(@, "load")]
    /\ UNCHANGED <<proofs, keys, okSwaps, quoteVars, keyVars>>

InputYs(tokens) == {HashToCurve(tokens[i].secret) : i \in 1..Len(tokens)}

SwapSpend(p) ==
    /\ swap[p].pc = "spend"
    /\ proofs' = Spend(proofs, swap[p].inputs)
    /\ swap' = [swap EXCEPT ![p].pc = "done",
                            ![p].result = Result("Ok", swap[p].signatures),
                            ![p].calls = Append(@, "spend"),
                            ![p].spends = Append(swap[p].spends, swap[p].inputs)]
    /\ okSwaps' = [y \in Ys |->
                      IF y \in InputYs(swap[p].inputs) THEN okSwaps[y] + 1
                      ELSE okSwaps[y]]
    /\ UNCHANGED <<keys, quoteVars, keyVars>>

\* proofs.spend answers Err: the call returns ProofRepository after it has
\* built the signatures, and no proof is marked.
SwapSpendFails(p) ==
    /\ swap[p].pc = "spend"
    /\ Finish(p, "spend", Result("ProofRepository", <<>>))
    /\ UNCHANGED <<proofs, keys, okSwaps, quoteVars, keyVars>>

\* The caller of p's finished call submits the same inputs and outputs
\* again as call q.
SwapRetry(p, q) ==
    /\ swap[p].pc = "done"
    /\ SwapBegin(q, {<<swap[p].inputs, swap[p].outputs>>})

\* The caller takes the result; the next call starts afresh.
SwapReturn(p) ==
    /\ swap[p].pc = "done"
    /\ swap' = [swap EXCEPT ![p] = IdleSwap]
    /\ UNCHANGED <<proofs, keys, okSwaps, quoteVars, keyVars>>

\* ------------------------------------------------------- quote entity
MaxQuotes == 3
MaxRaceQuotes == 2
MaxTime == 1

Bills == {"billID"}
Endorsers == {"endorserID", "endorserID2"}
QuoteBlinds == {<<"blind1">>, <<"blind2">>}
Signatures == {<<"sig1">>}
Times == 0..MaxTime

Pending(blinds) == [kind |-> "Pending", blinds |-> blinds]
Declined == [kind |-> "Declined"]
Accepted(signatures, ttl) == [kind |-> "Accepted", signatures |-> signatures, ttl |-> ttl]
IsPending(status) == status.kind = "Pending"

\* Quote::new, the fresh uuid given by the caller.
NewQuote(id, bill, endorser, blinds, submitted) ==
    [status |-> Pending(blinds), id |-> id, bill |-> bill,
     endorser |-> endorser, submitted |-> submitted]

Ok == [kind |-> "Ok"]
QuoteAlreadyResolved(id) == [kind |-> "QuoteAlreadyResolved", id |-> id]

\* A decline that does not look at the status.
QuoteDeclineAlways(q) == <<Ok, [q EXCEPT !.status = Declined]>>

\* Quote::decline: <<result, the quote afterwards>>.
QuoteDecline(q) ==
    IF IsPending(q.status)
    THEN <<Ok, [q EXCEPT !.status = Declined]>>
    ELSE <<QuoteAlreadyResolved(q.id), q>>

\* An accept that also moves the submission time to the ttl.
QuoteAcceptRestamps(q, signatures, ttl) ==
    IF ~IsPending(q.status)
    THEN <<QuoteAlreadyResolved(q.id), q>>
    ELSE <<Ok, [q EXCEPT !.status = Accepted(signatures, ttl), !.submitted = ttl]>>

\* Quote::accept: <<result, the quote afterwards>>.
QuoteAccept(q, signatures, ttl) ==
    IF ~IsPending(q.status)
    THEN <<QuoteAlreadyResolved(q.id), q>>
    ELSE <<Ok, [q EXCEPT !.status = Accepted(signatures, ttl)]>>

\* ---------------------------------------------------- quote repository
\* QuotesIDMap::search_by_bill: the first match in the map's iteration order,
\* which is any of the matches. The set of possible answers.
SearchByBill(m, bill, endorser) ==
    LET hits == {id \in DOMAIN m : m[id].bill = bill /\ m[id].endorser = endorser}
    IN  IF hits = {} THEN {None} ELSE {Some(m[id]) : id \in hits}

\* QuotesIDMap::store
Store(m, quote) ==
    [id \in DOMAIN m \cup {quote.id} |-> IF id = quote.id THEN quote ELSE m[id]]

\* QuotesIDMap::load
Load(m, id) == IF id \in DOMAIN m THEN Some(m[id]) ELSE None

\* An update that writes whatever the stored status is.
UpdateAlways(m, new) ==
    IF new.id \in DOMAIN m THEN [m EXCEPT ![new.id] = new] ELSE m

\* QuotesIDMap::update_if_pending
UpdateIfPending(m, new) ==
    LET id == new.id
    IN  IF id \in DOMAIN m
        THEN IF IsPending(m[id].status) THEN [m EXCEPT ![id] = new] ELSE m
        ELSE m

\* QuotesIDMap::list_pendings: the ids collected, in no order. An absent
\* since is the default time stamp, the epoch, which is time 0.
ListPendings(m, since) ==
    {id \in DOMAIN m :
        /\ IsPending(m[id].status)
        /\ m[id].submitted >= (IF IsSome(since) THEN Unwrap(since) ELSE 0)}

\* QuotesIDMap::list_accepteds: the ids collected, in no order.
ListAccepteds(m, since) ==
    {id \in DOMAIN m : m[id].status.kind = "Accepted"}

\* ----------------------------------------------------- quote operations
IdleCli ==
    [pc |-> "idle", bill |-> "", endorser |-> "", blinds |-> <<>>, submitted |-> 0,
     found |-> None, stored |-> None, id |-> None,
     prev |-> None, copy |-> None, call |-> <<>>, res |-> None, raced |-> {}]

\* A generate that takes a quote whose ttl equals submitted for expired.
GenerateExistingInclusive(found, submitted) ==
    IF ~IsSome(found) THEN None
    ELSE LET quote == Unwrap(found)
         IN  IF quote.status.kind = "Accepted" /\ quote.status.ttl <= submitted
             THEN None
             ELSE Some(quote.id)

\* Factory::generate after search_by_bill answered `found`: Some(id) when the
\* existing id is returned, None when a new quote is to be created.
GenerateExisting(found, submitted) ==
    IF ~IsSome(found) THEN None
    ELSE LET quote == Unwrap(found)
         IN  IF quote.status.kind = "Accepted" /\ quote.status.ttl < submitted
             THEN None
             ELSE Some(quote.id)

InGenerate(q) == cli[q].pc = "gen_store"

\* generate(bill, endorser, blinds, now), the request drawn from Requests, up
\* to the answer of search_by_bill. At most Cap quotes are ever created.
GenSearch(p, Cap, Requests) ==
    /\ cli[p].pc = "idle"
    /\ nextId + Cardinality({q \in Procs : InGenerate(q)}) <= Cap
    /\ \E r \in Requests :
       \E found \in SearchByBill(quotes, r[1], r[2]) :
          LET bill == r[1]
              endorser == r[2]
              blinds == r[3]
              existing == GenerateExisting(found, now)
              call == [IdleCli EXCEPT !.bill = bill, !.endorser = endorser,
                          !.blinds = blinds, !.submitted = now, !.found = found,
                          !.raced = {q \in Procs \ {p} :
                                        /\ InGenerate(q)
                                        /\ cli[q].bill = bill
                                        /\ cli[q].endorser = endorser}]
          IN  cli' = [cli EXCEPT ![p] =
                  IF IsSome(existing)
                  THEN [call EXCEPT !.pc = "gen_done", !.id = existing]
                  ELSE [call EXCEPT !.pc = "gen_store"]]
    /\ UNCHANGED <<quotes, now, nextId, swapVars, keyVars>>

\* generate: Quote::new and store.
GenStore(p) ==
    /\ cli[p].pc = "gen_store"
    /\ LET quote == NewQuote(nextId, cli[p].bill, cli[p].endorser,
                             cli[p].blinds, cli[p].submitted)
       IN  /\ quotes' = Store(quotes, quote)
           /\ cli' = [cli EXCEPT ![p].pc = "gen_done", ![p].id = Some(quote.id),
                                 ![p].stored = Some(quote)]
    /\ nextId' = nextId + 1
    /\ UNCHANGED <<now, swapVars, keyVars>>

\* A quote the repository has never held.
ForeignQuote == NewQuote(0, "billID", "endorserID", <<"blind1">>, 0)

\* An operator loads a quote by id.
ResLoad(p) ==
    /\ cli[p].pc = "idle"
    /\ \E id \in 1..(nextId - 1) :
          cli' = [cli EXCEPT ![p] = [IdleCli EXCEPT !.pc = "res_loaded",
                                                    !.copy = Load(quotes, id)]]
    /\ UNCHANGED <<quotes, now, nextId, swapVars, keyVars>>

\* An operator holds a quote that is not in the repository.
ResForeign(p) ==
    /\ cli[p].pc = "idle"
    /\ cli' = [cli EXCEPT ![p] = [IdleCli EXCEPT !.pc = "res_loaded",
                                                 !.copy = Some(ForeignQuote)]]
    /\ UNCHANGED <<quotes, now, nextId, swapVars, keyVars>>

ApplyCall(q, call) ==
    IF call[1] = "decline" THEN QuoteDecline(q)
    ELSE QuoteAccept(q, call[2], call[3])

Calls == {<<"decline", <<>>, 0>>} \cup
         {<<"accept", s, ttl>> : s \in Signatures, ttl \in Times}

\* The operator calls accept or decline on its copy.
ResApply(p) ==
    /\ cli[p].pc = "res_loaded"
    /\ \E call \in Calls :
          LET r == ApplyCall(Unwrap(cli[p].copy), call)
          IN  cli' = [cli EXCEPT ![p].pc = "res_applied", ![p].prev = cli[p].copy,
                                 ![p].copy = Some(r[2]), ![p].call = call,
                                 ![p].res = Some(r[1])]
    /\ UNCHANGED <<quotes, now, nextId, swapVars, keyVars>>

\* The operator writes its copy back, which ends the operation.
ResUpdate(p) ==
    /\ cli[p].pc = "res_applied"
    /\ quotes' = UpdateIfPending(quotes, Unwrap(cli[p].copy))
    /\ cli' = [cli EXCEPT ![p] = IdleCli]
    /\ UNCHANGED <<now, nextId, swapVars, keyVars>>

\* A call of list_pendings or list_accepteds, which is one read of the map;
\* the caller keeps the call and its answer until its next operation.
ResList(p) ==
    /\ cli[p].pc = "idle"
    /\ \E op \in {"list_pendings", "list_accepteds"} :
       \E since \in {None} \cup {Some(t) : t \in Times} :
          LET ids == IF op = "list_pendings" THEN ListPendings(quotes, since)
                     ELSE ListAccepteds(quotes, since)
          IN  cli' = [cli EXCEPT ![p] = [IdleCli EXCEPT !.call = <<op, since>>,
                                                        !.res = Some(ids)]]
    /\ UNCHANGED <<quotes, now, nextId, swapVars, keyVars>>

\* The caller of generate takes the returned id.
CliReturn(p) ==
    /\ cli[p].pc = "gen_done"
    /\ cli' = [q \in Procs |->
                  IF q = p THEN IdleCli
                  ELSE [cli[q] EXCEPT !.raced = cli[q].raced \ {p}]]
    /\ UNCHANGED <<quotes, now, nextId, swapVars, keyVars>>

Tick ==
    /\ now < MaxTime
    /\ now' = now + 1
    /\ UNCHANGED <<quotes, nextId, cli, swapVars, keyVars>>

\* ------------------------------------------------ credit keys: the tiers
\* The width of the rotation field of a maturity keyset id (24 bits in
\* bytes 4..7 of the id), scaled down.
RotationBits == 1
RotationModulus == 2 ^ RotationBits
\* The range of the u32 rotation_idx, scaled with the field: wider than it.
IdxModulus == 2 ^ (RotationBits + 1)
Rotations == 0..(RotationModulus - 1)

\* chrono's num_days: seconds in a day.
SecsPerDay == 86400
\* A day count that keeps the time of day.
NumDaysExact(timestamp) == timestamp

\* Whole days from the epoch, rounded toward zero.
NumDays(timestamp) ==
    IF timestamp >= 0 THEN timestamp \div SecsPerDay
    ELSE -((-timestamp) \div SecsPerDay)

\* The width of a hardened child index (31 bits in the code), scaled down;
\* a u32 is one bit wider.
HardenedBits == 3
\* (maturity_date - UNIX_EPOCH).num_days() as u32
MaturityIdx(maturity_date) == NumDays(maturity_date) % (2 ^ (HardenedBits + 1))

\* generate_keyset_id_from_maturity_date: the id is <<bytes 0..4, bytes 4..7>>.
\* rotation_idx is written big-endian to bytes 3..7 and the day count then
\* to bytes 0..4, so byte 3 holds the day count and the id keeps the low
\* bits of rotation_idx only.
GenerateKeysetIdFromMaturityDate(maturity_date, rotation_idx) ==
    <<MaturityIdx(maturity_date), rotation_idx % RotationModulus>>

\* A bill maturity date, at noon of its day.
MaturityDate == SecsPerDay + SecsPerDay \div 2
\* An id outside the rotation chain of MaturityDate.
OtherId == GenerateKeysetIdFromMaturityDate(0, 0)
ChainId(r) == GenerateKeysetIdFromMaturityDate(MaturityDate, r)
KIds == {ChainId(r) : r \in Rotations} \cup {OtherId}

\* MintKeySetInfo, the fields the repository reads.
MkInfo(id, active, valid_to, derivation_path_index) ==
    [id |-> id, active |-> active, valid_to |-> valid_to,
     derivation_path_index |-> derivation_path_index]

\* KeysetIDEntryMap::info
TierInfo(t, kid) == IF kid \in DOMAIN t THEN Some(t[kid]) ELSE None
\* KeysetIDEntryMap::keyset: the keyset stored with the info in tier `name`.
TierKeyset(name, t, kid) ==
    IF kid \in DOMAIN t THEN Some([id |-> kid, tier |-> name]) ELSE None

\* An info_active that answers only with an info that is active.
InfoActiveIfActive(d) ==
    IF IsSome(d.active) /\ TierInfo(d.keys, Unwrap(d.active)) # None
                        /\ d.keys[Unwrap(d.active)].active
    THEN TierInfo(d.keys, Unwrap(d.active))
    ELSE None

\* KeysetIDEntryMapWithActive::info_active
InfoActive(d) ==
    IF IsSome(d.active) THEN TierInfo(d.keys, Unwrap(d.active)) ELSE None

\* ---- tier contents
EmptyTier == <<>>
OneEntry(info) == [k \in {info.id} |-> info]
\* A store that leaves the tier as it was.
TierStoreDropped(t, info) == t

\* KeysetIDEntryMap::store of info under its id.
TierStore(t, info) ==
    [k \in DOMAIN t \cup {info.id} |-> IF k = info.id THEN info ELSE t[k]]

\* The rotation chain of MaturityDate: any set of rotations stored, each
\* active or not, as the maturity factory writes them.
ChainTiers ==
    LET maps == UNION {[S -> BOOLEAN] : S \in SUBSET Rotations}
    IN  {[k \in {ChainId(r) : r \in DOMAIN m} |->
            LET r == CHOOSE r \in DOMAIN m : ChainId(r) = k
            IN  MkInfo(k, m[r], Some(MaturityDate), Some(r))] : m \in maps}

\* Infos stored through the repository with fields not set or not those of
\* their id.
OddInfos ==
    {MkInfo(id, TRUE, None, None) : id \in KIds} \cup
    {MkInfo(id, FALSE, v, d) :
        id \in KIds, v \in {None, Some(MaturityDate)},
        d \in {None, Some(0), Some(RotationModulus - 1)}}

MaturityTiers ==
    ChainTiers \cup {TierStore(t, info) : t \in ChainTiers, info \in OddInfos}

\* The endorsed tier: empty, or the keyset of one quote.
EndorsedTiers ==
    {EmptyTier} \cup
    {OneEntry(MkInfo(OtherId, FALSE, v, None)) : v \in {None, Some(MaturityDate)}}

\* The debit tier after no store, a store of an active keyset, a store of an
\* inactive one, and a store of an active one followed by an inactive one
\* under the same id.
DebitTiers ==
    {[keys |-> EmptyTier, active |-> None]} \cup
    {[keys |-> OneEntry(MkInfo(id, TRUE, None, None)), active |-> Some(id)] :
        id \in {OtherId, ChainId(0)}} \cup
    {[keys |-> OneEntry(MkInfo(id, FALSE, None, None)),
      active |-> IF recorded THEN Some(id) ELSE None] :
        id \in {OtherId, ChainId(0)}, recorded \in BOOLEAN}

TierStates == [endorsed : EndorsedTiers, maturity : MaturityTiers, debit : DebitTiers]

\* ---- calls into SwapRepository
KResult(kind, value) == [kind |-> kind, value |-> value]
IdleKCall ==
    [pc |-> "idle", op |-> "", kid |-> <<>>, via |-> "", maturity |-> 0,
     rotation_idx |-> 0, hits |-> 0, consulted |-> <<>>, result |-> KResult("none", None)]

KFinish(res) == kcall' = [kcall EXCEPT !.pc = "done", !.result = res]

\* replacing_id(kid) up to the answer of endorsed_keys.info: the call as it
\* stands then, logged under the name op.
ReplacingIdCall(op, kid) ==
    LET info == TierInfo(tiers.endorsed, kid)
        call == [IdleKCall EXCEPT !.op = op, !.kid = kid]
    IN  IF IsSome(info)
        THEN IF ~IsSome(Unwrap(info).valid_to)
             THEN [call EXCEPT !.pc = "done",
                       !.result = KResult("Panic", <<"valid_to field not set">>)]
             ELSE [call EXCEPT !.pc = "scan", !.via = "endorsed",
                       !.maturity = Unwrap(Unwrap(info).valid_to),
                       !.rotation_idx = 0]
        ELSE [call EXCEPT !.pc = "from_id"]

ReplacingId(kid) ==
    /\ kcall.pc = "idle"
    /\ kcall' = ReplacingIdCall("replacing_id", kid)
    /\ UNCHANGED <<tiers, qkeys, fcall, swapVars, quoteVars>>

\* The caller passes the id replacing_id returned to replacing_id again.
ReplacingIdAgain ==
    /\ kcall.pc = "done"
    /\ kcall.op = "replacing_id"
    /\ kcall.result.kind = "Ok"
    /\ IsSome(kcall.result.value)
    /\ kcall' = ReplacingIdCall("replacing_id again", Unwrap(kcall.result.value))
    /\ UNCHANGED <<tiers, qkeys, fcall, swapVars, quoteVars>>

\* A scan that takes any stored rotation, active or not.
ScanStepAnyStored(m, maturity_date, rotation_idx) ==
    LET kid == GenerateKeysetIdFromMaturityDate(maturity_date, rotation_idx)
        info == TierInfo(m, kid)
    IN  IF ~IsSome(info) THEN <<"missing">>
        ELSE <<"found", kid>>

\* One turn of the loop of find_maturity_keys_from_maturity_date.
ScanStep(m, maturity_date, rotation_idx) ==
    LET kid == GenerateKeysetIdFromMaturityDate(maturity_date, rotation_idx)
        info == TierInfo(m, kid)
    IN  IF ~IsSome(info) THEN <<"missing">>
        ELSE IF Unwrap(info).active THEN <<"found", kid>>
        ELSE <<"next">>

\* find_maturity_keys_from_maturity_date, one turn of its loop. rotation_idx
\* += 1 at the top of the u32 range aborts in a build that checks overflow
\* and wraps in one that does not.
FindMaturityKeysFromMaturityDate ==
    /\ kcall.pc = "scan"
    /\ LET step == ScanStep(tiers.maturity, kcall.maturity, kcall.rotation_idx)
           hits == IF kcall.hits < IdxModulus THEN kcall.hits + 1 ELSE kcall.hits
       IN  IF step[1] = "found" THEN KFinish(KResult("Ok", Some(step[2])))
           ELSE IF step[1] = "missing"
                THEN kcall' = [kcall EXCEPT !.pc =
                         IF kcall.via = "endorsed" THEN "from_id" ELSE "debit"]
           ELSE IF kcall.rotation_idx + 1 < IdxModulus
                THEN kcall' = [kcall EXCEPT !.rotation_idx = kcall.rotation_idx + 1,
                                            !.hits = hits]
           ELSE \/ KFinish(KResult("Panic", <<"attempt to add with overflow">>))
                \/ kcall' = [kcall EXCEPT !.rotation_idx = 0, !.hits = hits]
    /\ UNCHANGED <<tiers, qkeys, fcall, swapVars, quoteVars>>

\* A restart of the scan at the rotation of the inactive keyset itself.
NextRotationSame(info) == Unwrap(info.derivation_path_index)

\* The rotation find_maturity_keys_from_id restarts the scan at.
NextRotation(info) == Unwrap(info.derivation_path_index) + 1

\* find_maturity_keys_from_id up to its call of the scan.
FindMaturityKeysFromId ==
    /\ kcall.pc = "from_id"
    /\ LET o == TierInfo(tiers.maturity, kcall.kid)
       IN  IF ~IsSome(o) THEN kcall' = [kcall EXCEPT !.pc = "debit"]
           ELSE LET info == Unwrap(o)
                IN  IF info.active THEN KFinish(KResult("Ok", Some(kcall.kid)))
                    ELSE IF ~IsSome(info.valid_to)
                         THEN KFinish(KResult("Panic", <<"valid_to field not set">>))
                    ELSE IF ~IsSome(info.derivation_path_index)
                         THEN KFinish(KResult("Panic", <<"derivation_path_index not set">>))
                    ELSE kcall' = [kcall EXCEPT !.pc = "scan", !.via = "id",
                                       !.maturity = Unwrap(info.valid_to),
                                       !.rotation_idx = NextRotation(info),
                                       !.hits = 0]
    /\ UNCHANGED <<tiers, qkeys, fcall, swapVars, quoteVars>>

\* replacing_id, last step: the debit tier's active keyset.
ReplacingIdDebit ==
    /\ kcall.pc = "debit"
    /\ LET info == InfoActive(tiers.debit)
       IN  KFinish(KResult("Ok", IF IsSome(info) THEN Some(Unwrap(info).id) ELSE None))
    /\ UNCHANGED <<tiers, qkeys, fcall, swapVars, quoteVars>>

\* An info that asks the maturity tier before the endorsed tier.
SwapRepositoryInfoMaturityFirst(t, id) ==
    LET e == TierInfo(t.endorsed, id)
        m == TierInfo(t.maturity, id)
    IN  IF IsSome(m) THEN [consulted |-> <<"maturity">>, value |-> m]
        ELSE IF IsSome(e) THEN [consulted |-> <<"maturity", "endorsed">>, value |-> e]
        ELSE [consulted |-> <<"maturity", "endorsed", "debit">>,
              value |-> TierInfo(t.debit.keys, id)]

\* SwapRepository::info: the tiers asked, in order, and the answer.
SwapRepositoryInfo(t, id) ==
    LET e == TierInfo(t.endorsed, id)
        m == TierInfo(t.maturity, id)
    IN  IF IsSome(e) THEN [consulted |-> <<"endorsed">>, value |-> e]
        ELSE IF IsSome(m) THEN [consulted |-> <<"endorsed", "maturity">>, value |-> m]
        ELSE [consulted |-> <<"endorsed", "maturity", "debit">>,
              value |-> TierInfo(t.debit.keys, id)]

\* SwapRepository::keyset
SwapRepositoryKeyset(t, id) ==
    LET e == TierKeyset("endorsed", t.endorsed, id)
        m == TierKeyset("maturity", t.maturity, id)
    IN  IF IsSome(e) THEN [consulted |-> <<"endorsed">>, value |-> e]
        ELSE IF IsSome(m) THEN [consulted |-> <<"endorsed", "maturity">>, value |-> m]
        ELSE [consulted |-> <<"endorsed", "maturity", "debit">>,
              value |-> TierKeyset("debit", t.debit.keys, id)]

KInfo(id) ==
    /\ kcall.pc = "idle"
    /\ LET r == SwapRepositoryInfo(tiers, id)
       IN  kcall' = [IdleKCall EXCEPT !.pc = "done", !.op = "info", !.kid = id,
                         !.consulted = r.consulted,
                         !.result = KResult("Ok", r.value)]
    /\ UNCHANGED <<tiers, qkeys, fcall, swapVars, quoteVars>>

KKeyset(id) ==
    /\ kcall.pc = "idle"
    /\ LET r == SwapRepositoryKeyset(tiers, id)
       IN  kcall' = [IdleKCall EXCEPT !.pc = "done", !.op = "keyset", !.kid = id,
                         !.consulted = r.consulted,
                         !.result = KResult("Ok", r.value)]
    /\ UNCHANGED <<tiers, qkeys, fcall, swapVars, quoteVars>>

\* extract_maturity_and_rotatingidx_from_id: bytes 0..4 of the id read as a
\* u32 and taken as a timestamp in seconds, bytes 4..7 as the rotation.
ExtractMaturityAndRotatingidxFromId(id) == <<id[1], id[2]>>

KExtract(id) ==
    /\ kcall.pc = "idle"
    /\ kcall' = [IdleKCall EXCEPT !.pc = "done", !.op = "extract", !.kid = id,
                     !.result = KResult("Ok", ExtractMaturityAndRotatingidxFromId(id))]
    /\ UNCHANGED <<tiers, qkeys, fcall, swapVars, quoteVars>>

KReturn ==
    /\ kcall.pc = "done"
    /\ kcall' = IdleKCall
    /\ UNCHANGED <<tiers, qkeys, fcall, swapVars, quoteVars>>

\* ------------------------------------------- credit keys: the factory
\* The seed every factory instance is built from, and Xpriv::new_master.
FactorySeed == "seed"
Xpriv(seed) == <<"xpriv", seed>>

\* generate_keyset_id_from_bill: the first bytes of the hash of the bill id
\* followed by the node id, format!("{}{}", bill, node).
GenerateKeysetIdFromBill(bill, node) == <<"sha256", bill \o node>>

\* The quotes a keyset is generated for: the bill and its endorser, from
\* which the caller makes the keyset id, the quote id and the maturity
\* date of the bill. The first two bills mature on the same day at
\* different times, the third a day later, the last before the epoch.
FactoryRequests ==
    { <<"ab", "c", "q1", MaturityDate>>,
      <<"a", "bc", "q2", MaturityDate + 1>>,
      <<"b", "c", "q3", MaturityDate + SecsPerDay>>,
      <<"c", "c", "q4", -MaturityDate>> }

\* generate_path_index_from_keysetid and generate_path_idx_from_quoteid:
\* a hardened child made from the first bytes of a hash of the id.
GeneratePathIndexFromKeysetid(kid) == <<"sha256", kid, "'">>
GeneratePathIdxFromQuoteid(quoteid) == <<"sha256", quoteid, "'">>

\* generate_quote_keyset_path: m/129372'/129534'/<keysetID>'/<quoteID>'
GenerateQuoteKeysetPath(kid, quote) ==
    <<"129372'", "129534'", GeneratePathIndexFromKeysetid(kid),
      GeneratePathIdxFromQuoteid(quote)>>

\* generate_maturity_keyset_path: m/129372'/129534'/<days from the epoch>'
GenerateMaturityKeysetPath(maturity_date) ==
    <<"129372'", "129534'", <<MaturityIdx(maturity_date), "'">>>>

\* A derivation that depends on the time of the call.
DeriveKeysAtTime(xpriv, path) ==
    [a \in KeyAmounts |-> <<"keypair", xpriv, path, a, now>>]

\* MintKeySet::generate_from_xpriv(..).keys: one key pair per amount, a
\* function of the master key and the path.
DeriveKeys(xpriv, path) ==
    [a \in KeyAmounts |-> <<"keypair", xpriv, path, a>>]

MkMintKeySet(id, keyset_keys) ==
    [id |-> id, keys |-> keyset_keys, unit |-> "crsat"]

\* MintKeySetInfo as the factory fills it.
MintKeySetInfo(id, active, valid_from, valid_to, derivation_path, derivation_path_index) ==
    [id |-> id, active |-> active, valid_from |-> valid_from,
     valid_to |-> valid_to, derivation_path |-> derivation_path,
     derivation_path_index |-> derivation_path_index]

\* An info of the quote keyset that is stored active.
QuoteKeysetInfoActive(keysetid, path, bill_maturity_date, valid_from) ==
    MintKeySetInfo(keysetid, TRUE, valid_from, Some(bill_maturity_date), path, None)

\* The info generate stores with the quote keyset.
QuoteKeysetInfo(keysetid, path, bill_maturity_date, valid_from) ==
    MintKeySetInfo(keysetid, FALSE, valid_from, Some(bill_maturity_date), path, None)

\* The info generate stores with the maturity keyset of rotation 0.
MaturityKeysetInfo(kid, path, bill_maturity_date, valid_from) ==
    MintKeySetInfo(kid, TRUE, valid_from, Some(bill_maturity_date), path, Some(0))

\* The maturity keyset of rotation 0: derived at <maturity path>/0', its id
\* overridden with the id made from the maturity date.
MaturityKeyset(xpriv, bill_maturity_date) ==
    MkMintKeySet(GenerateKeysetIdFromMaturityDate(bill_maturity_date, 0),
                 DeriveKeys(xpriv, Append(GenerateMaturityKeysetPath(bill_maturity_date),
                                          <<0, "'">>)))

\* KeysetIDQuoteIDMap::store: insert under (keyset.id, qid).
QuoteStore(m, qid, keyset, info) ==
    LET k == <<keyset.id, qid>>
    IN  [x \in DOMAIN m \cup {k} |->
            IF x = k THEN [info |-> info, keyset |-> keyset] ELSE m[x]]

IdleFCall ==
    [pc |-> "idle", bill |-> <<>>, keysetid |-> <<>>, quote |-> "", bill_maturity_date |-> 0,
     set |-> None, created |-> FALSE, result |-> KResult("none", None)]

FFinish(p, res) == fcall' = [fcall EXCEPT ![p].pc = "done", ![p].result = res]

\* generate(keysetid, quote, bill_maturity_date) up to the answer of
\* quote_keys.store, which is Err when fail.
FactoryGenerate(p, fail) ==
    /\ fcall[p].pc = "idle"
    /\ \E r \in FactoryRequests :
          LET keysetid == GenerateKeysetIdFromBill(r[1], r[2])
              quote == r[3]
              bill_maturity_date == r[4]
              path == GenerateQuoteKeysetPath(keysetid, quote)
              info == QuoteKeysetInfo(keysetid, path, bill_maturity_date, now)
              set == MkMintKeySet(keysetid, DeriveKeys(Xpriv(FactorySeed), path))
              call == [IdleFCall EXCEPT !.bill = <<r[1], r[2]>>,
                           !.keysetid = keysetid, !.quote = quote,
                           !.bill_maturity_date = bill_maturity_date,
                           !.set = Some(set)]
          IN  IF fail
              THEN /\ fcall' = [fcall EXCEPT ![p] =
                        [call EXCEPT !.pc = "done",
                              !.result = KResult("Err", <<"quote_keys.store">>)]]
                   /\ qkeys' = qkeys
              ELSE /\ qkeys' = QuoteStore(qkeys, quote, set, info)
                   /\ fcall' = [fcall EXCEPT ![p] = [call EXCEPT !.pc = "info"]]
    /\ UNCHANGED <<tiers, kcall, swapVars, quoteVars>>

\* generate: maturing_keys.info of the rotation-0 id of the maturity date.
FactoryMaturityInfo(p, fail) ==
    /\ fcall[p].pc = "info"
    /\ LET kid == GenerateKeysetIdFromMaturityDate(fcall[p].bill_maturity_date, 0)
       IN  IF fail THEN FFinish(p, KResult("Err", <<"maturing_keys.info">>))
           ELSE IF IsSome(TierInfo(tiers.maturity, kid))
                THEN FFinish(p, KResult("Ok", fcall[p].set))
           ELSE fcall' = [fcall EXCEPT ![p].pc = "store"]
    /\ UNCHANGED <<tiers, kcall, qkeys, swapVars, quoteVars>>

\* generate: the maturity keyset is derived and stored, and the quote
\* keyset returned. generate_maturity_keyset_path aborts when the day count
\* taken as a u32 is not a hardened index.
FactoryMaturityStore(p, fail) ==
    /\ fcall[p].pc = "store"
    /\ LET date == fcall[p].bill_maturity_date
           keyset == MaturityKeyset(Xpriv(FactorySeed), date)
           info == MaturityKeysetInfo(keyset.id, GenerateMaturityKeysetPath(date),
                                      date, now)
       IN  IF MaturityIdx(date) >= 2 ^ HardenedBits
           THEN /\ FFinish(p, KResult("Panic", <<"maturity date is a valid index">>))
                /\ tiers' = tiers
           ELSE IF fail
           THEN /\ FFinish(p, KResult("Err", <<"maturing_keys.store">>))
                /\ tiers' = tiers
           ELSE /\ tiers' = [tiers EXCEPT !.maturity = TierStore(@, info)]
                /\ fcall' = [fcall EXCEPT ![p].pc = "done", ![p].created = TRUE,
                                          ![p].result = KResult("Ok", fcall[p].set)]
    /\ UNCHANGED <<kcall, qkeys, swapVars, quoteVars>>

\* The caller takes the keyset; the next call starts afresh.
FactoryReturn(p) ==
    /\ fcall[p].pc = "done"
    /\ fcall' = [fcall EXCEPT ![p] = IdleFCall]
    /\ UNCHANGED <<tiers, kcall, qkeys, swapVars, quoteVars>>

\* ------------------------------------------------------- specifications
AllRequests == SeqsUpTo(AllProofs, MaxInputs) \X SeqsUpTo(AllOutputs, MaxOutputs)

\* Requests built from signed proofs that pass the zero-cost checks: the
\* only ones that reach a repository call, hence the only ones that can
\* interleave with another request.
RaceRequests ==
    {r \in SeqsUpTo({ValidProof("k1", 1, "s1"), ValidProof("k1", 1, "s2")}, MaxInputs)
            \X SeqsUpTo([amount : KeyAmounts, blinded_secret : Blinds], MaxOutputs) :
        ~IsSome(ZeroCostChecks(r[1], r[2]))}

KeysAtRest ==
    /\ tiers = [endorsed |-> EmptyTier, maturity |-> EmptyTier,
                debit |-> [keys |-> EmptyTier, active |-> None]]
    /\ kcall = IdleKCall
    /\ qkeys = <<>>
    /\ fcall = [p \in Procs |-> IdleFCall]

QuotesAtRest ==
    /\ quotes = <<>>
    /\ now = 0
    /\ nextId = 1
    /\ cli = [p \in Procs |-> IdleCli]

SwapsAtRest ==
    /\ proofs = <<>>
    /\ keys \in {k \in KeyRepoStates : k.replacing["k1"] = Some("k1")}
    /\ swap = [p \in Procs |-> IdleSwap]
    /\ okSwaps = [y \in Ys |-> 0]

\* A proof repository that holds nothing, or holds proofs another operation
\* has marked Pending and Reserved.
ProofRepoStates ==
    { <<>>,
      [y \in {HashToCurve("s2"), HashToCurve("s3")} |->
          [y |-> y, state |-> IF y = HashToCurve("s2") THEN "Pending" ELSE "Reserved"]] }

InitSwapSeq ==
    /\ proofs \in ProofRepoStates
    /\ keys \in KeyRepoStates
    /\ swap = [p \in Procs |-> IdleSwap]
    /\ okSwaps = [y \in Ys |-> 0]
    /\ QuotesAtRest
    /\ KeysAtRest

InitSwap ==
    /\ proofs = <<>>
    /\ keys \in KeyRepoStates
    /\ swap = [p \in Procs |-> IdleSwap]
    /\ okSwaps = [y \in Ys |-> 0]
    /\ QuotesAtRest
    /\ KeysAtRest

\* The steps of a call after its first; the repository may answer Err at the
\* calls named by Fails and FailAts.
SwapSteps(p, Fails, FailAts) ==
    \/ \E fail \in Fails : SwapGetState(p, fail)
    \/ \E failAt \in FailAts : SwapVerifySignatures(p, failAt)
    \/ \E failAt \in FailAts : SwapReplacingIds(p, failAt)
    \/ \E fail \in Fails : SwapSign(p, fail)
    \/ SwapSpend(p)
    \/ SwapReturn(p)

\* One caller at a time, any request.
NextSwapSeq ==
    \/ SwapBegin("a", AllRequests)
    \/ SwapSteps("a", BOOLEAN, 0..MaxInputs)

\* Concurrent callers, over repositories that answer every call.
NextSwap ==
    \E p \in Procs :
        \/ SwapBegin(p, RaceRequests)
        \/ SwapSteps(p, {FALSE}, {0})

\* Call "a" is a first attempt, any request, any repository failure; call
\* "b" is its retry, any number of times, the first attempt's record kept.
NextSwapRetry ==
    \/ SwapBegin("a", AllRequests)
    \/ \E fail \in BOOLEAN : SwapGetState("a", fail)
    \/ \E failAt \in 0..MaxInputs : SwapVerifySignatures("a", failAt)
    \/ \E failAt \in 0..MaxInputs : SwapReplacingIds("a", failAt)
    \/ \E fail \in BOOLEAN : SwapSign("a", fail)
    \/ SwapSpend("a")
    \/ \E p \in Procs : SwapSpendFails(p)
    \/ SwapRetry("a", "b")
    \/ SwapSteps("b", {FALSE}, {0})

SpecSwapSeq == InitSwapSeq /\ [][NextSwapSeq]_vars
SpecSwap == InitSwap /\ [][NextSwap]_vars
SpecSwapRetry == InitSwapSeq /\ [][NextSwapRetry]_vars

InitQuote == QuotesAtRest /\ SwapsAtRest /\ KeysAtRest

AllQuoteRequests == Bills \X Endorsers \X QuoteBlinds
RaceQuoteRequests == {<<"billID", "endorserID", <<"blind1">>>>}

QuoteSteps(p, Cap, Requests) ==
    \/ GenSearch(p, Cap, Requests)
    \/ GenStore(p)
    \/ ResLoad(p)
    \/ ResForeign(p)
    \/ ResApply(p)
    \/ ResUpdate(p)
    \/ CliReturn(p)

\* One caller at a time.
NextQuoteSeq == QuoteSteps("a", MaxQuotes, AllQuoteRequests) \/ Tick

\* Concurrent callers, all asking for the same (bill, endorser).
NextQuote == (\E p \in Procs : QuoteSteps(p, MaxRaceQuotes, RaceQuoteRequests)) \/ Tick

SpecQuoteSeq == InitQuote /\ [][NextQuoteSeq]_vars

\* One caller at a time, who also lists the quotes.
SpecQuoteList == InitQuote /\ [][NextQuoteSeq \/ ResList("a")]_vars
SpecQuote == InitQuote /\ [][NextQuote]_vars

\* Calls into SwapRepository, one at a time, over any contents of the tiers.
InitKeys ==
    /\ tiers \in TierStates
    /\ kcall = IdleKCall
    /\ qkeys = <<>>
    /\ fcall = [p \in Procs |-> IdleFCall]
    /\ QuotesAtRest
    /\ SwapsAtRest

NextKeys ==
    \/ \E kid \in KIds : ReplacingId(kid)
    \/ FindMaturityKeysFromMaturityDate
    \/ FindMaturityKeysFromId
    \/ ReplacingIdDebit
    \/ \E kid \in KIds : KInfo(kid)
    \/ \E kid \in KIds : KKeyset(kid)
    \/ \E kid \in KIds : KExtract(kid)
    \/ KReturn

SpecKeys == InitKeys /\ [][NextKeys]_vars
\* The same, with calls of replacing_id on the id a call returned.
SpecKeysAgain == InitKeys /\ [][NextKeys \/ ReplacingIdAgain]_vars

\* Concurrent generate calls on factory instances that share a seed and
\* their repositories, which start empty; the clock may advance.
InitFactory == QuotesAtRest /\ SwapsAtRest /\ KeysAtRest

NextFactory ==
    \/ \E p \in Procs, fail \in BOOLEAN : FactoryGenerate(p, fail)
    \/ \E p \in Procs, fail \in BOOLEAN : FactoryMaturityInfo(p, fail)
    \/ \E p \in Procs, fail \in BOOLEAN : FactoryMaturityStore(p, fail)
    \/ \E p \in Procs : FactoryReturn(p)
    \/ Tick

SpecFactory == InitFactory /\ [][NextFactory]_vars

\* ================================================================ claims
Done(p) == swap[p].pc = "done"
Returned(p, kind) == Done(p) /\ swap[p].result.kind = kind

\* C1: of the swaps that share an input proof at most one returns
\* signatures: no proof is an input of two swaps that returned Ok.
C1_AtMostOneSwapPerProof == \A y \in Ys : okSwaps[y] <= 1

\* C2: every input of a swap that returned Ok is reported Spent by get_state
\* from then on, whatever runs afterwards.
C2_SingleSpend ==
    /\ \A p \in Procs : Returned(p, "Ok") =>
          \A i \in 1..Len(swap[p].inputs) :
              GetState(proofs, swap[p].inputs)[i] = "Spent"
    /\ \A y \in Ys : okSwaps[y] > 0 => StateOf(proofs, y) = "Spent"
\* A swap returned Ok and a later swap on one of its inputs was refused.
C2_Witness ==
    \E p, q \in Procs :
        /\ Returned(p, "Ok") /\ Len(swap[p].inputs) = MaxInputs
        /\ Returned(q, "ProofsAlreadySpent")
        /\ InputYs(swap[q].inputs) \subseteq InputYs(swap[p].inputs)

\* C3 as stated: a swap that returned Ok has equal totals, and whenever the
\* totals differ the swap returns UnmatchingAmount(total_input, total_output).
C3_Original ==
    \A p \in Procs : Done(p) =>
        LET tin == TotalAmount(swap[p].inputs)
            tout == TotalAmount(swap[p].outputs)
            r == swap[p].result
        IN  /\ r.kind = "Ok" => tin = tout
            /\ tin # tout => r.kind = "UnmatchingAmount" /\ r.info = <<tin, tout>>
\* C3 amended: a swap that returned Ok has equal totals, and whenever the
\* totals differ, the inputs are not empty and no output amount is zero, the
\* swap returns UnmatchingAmount(total_input, total_output).
C3_Conservation ==
    \A p \in Procs : Done(p) =>
        LET tin == TotalAmount(swap[p].inputs)
            tout == TotalAmount(swap[p].outputs)
            r == swap[p].result
            outs == swap[p].outputs
        IN  /\ r.kind = "Ok" => tin = tout
            /\ (/\ tin # tout
                /\ swap[p].inputs # <<>>
                /\ \A i \in 1..Len(outs) : outs[i].amount # 0)
               => r.kind = "UnmatchingAmount" /\ r.info = <<tin, tout>>
\* A swap of several inputs into several outputs was refused for its totals.
C3_Witness ==
    \E p \in Procs :
        /\ Returned(p, "UnmatchingAmount")
        /\ Len(swap[p].inputs) > 1 /\ Len(swap[p].outputs) > 1
        /\ swap[p].result.info[1] < swap[p].result.info[2]

\* C4: a swap that returns an error has not called spend, and no step of a
\* call other than its spend changes any proof state; a swap that returns Ok
\* has called spend exactly once, with exactly its inputs.
C4_SideEffects ==
    /\ [](\A p \in Procs : Done(p) =>
            IF swap[p].result.kind = "Ok"
            THEN swap[p].spends = <<swap[p].inputs>>
            ELSE swap[p].spends = <<>>)
    /\ [][\A p \in Procs :
            swap'[p] # swap[p] =>
                IF swap[p].pc = "spend"
                THEN proofs' = Spend(proofs, swap[p].inputs)
                     /\ swap'[p].result.kind = "Ok"
                ELSE proofs' = proofs]_vars
\* After a swap that returned Ok, a swap whose inputs passed the unspent and
\* signature checks was refused as unmergeable.
C4_Witness ==
    \E p \in Procs :
        /\ Returned(p, "UnmergeableProofs")
        /\ \E y \in Ys : okSwaps[y] > 0

\* C5: accept and decline succeed exactly on a Pending quote, which becomes
\* Accepted{signatures, ttl} respectively Declined; on a resolved quote both
\* fail with QuoteAlreadyResolved(id) and leave the quote as it was.
C5_ResolveOnlyPending ==
    \A p \in Procs : cli[p].pc = "res_applied" =>
        LET before == Unwrap(cli[p].prev)
            after == Unwrap(cli[p].copy)
            call == cli[p].call
            r == Unwrap(cli[p].res)
        IN  IF before.status.kind = "Pending"
            THEN /\ r = Ok
                 /\ after = [before EXCEPT !.status =
                        IF call[1] = "decline" THEN Declined
                        ELSE Accepted(call[2], call[3])]
            ELSE /\ r = QuoteAlreadyResolved(before.id)
                 /\ after = before
\* decline was called on a quote that had been accepted.
C5_Witness ==
    \E p \in Procs :
        /\ cli[p].pc = "res_applied"
        /\ Unwrap(cli[p].prev).status.kind = "Accepted"
        /\ cli[p].call[1] = "decline"

\* Active at time t: Pending, Declined, or Accepted with ttl >= t.
Active(q, t) ==
    \/ q.status.kind \in {"Pending", "Declined"}
    \/ q.status.kind = "Accepted" /\ q.status.ttl >= t
QuotesFor(bill, endorser) ==
    {id \in DOMAIN quotes : quotes[id].bill = bill /\ quotes[id].endorser = endorser}

\* C6: between operations the repository holds at most one active quote per
\* (bill, endorser).
C6_Uniqueness ==
    (\A p \in Procs : cli[p].pc \in {"idle", "gen_done"}) =>
        \A bill \in Bills, endorser \in Endorsers :
            Cardinality({id \in QuotesFor(bill, endorser) : Active(quotes[id], now)}) <= 1

\* C7: a generate call made while a live quote exists for its (bill,
\* endorser) returns the id of that live quote and stores nothing.
C7_IdempotentDedup ==
    \A p \in Procs : cli[p].pc = "gen_done" =>
        LET created == IF IsSome(cli[p].stored) THEN {Unwrap(cli[p].stored).id} ELSE {}
            live == {id \in QuotesFor(cli[p].bill, cli[p].endorser) \ created :
                        Active(quotes[id], cli[p].submitted)}
        IN  live # {} => Unwrap(cli[p].id) \in live /\ ~IsSome(cli[p].stored)

\* C8: when the quote search_by_bill found is Accepted with ttl < submitted,
\* generate stores a new Pending quote with the request's bill, endorser,
\* blinds and submitted and returns its id, which is not the expired one;
\* when it is Accepted with ttl >= submitted generate returns the found id
\* and stores nothing.
C8_ExpiryReissue ==
    \A p \in Procs :
        (/\ cli[p].pc = "gen_done"
         /\ IsSome(cli[p].found)
         /\ Unwrap(cli[p].found).status.kind = "Accepted") =>
        LET old == Unwrap(cli[p].found)
            id == Unwrap(cli[p].id)
        IN  IF old.status.ttl < cli[p].submitted
            THEN /\ id # old.id
                 /\ id \in DOMAIN quotes
                 /\ cli[p].stored = Some(quotes[id])
                 /\ quotes[id] = [status |-> Pending(cli[p].blinds), id |-> id,
                                  bill |-> cli[p].bill, endorser |-> cli[p].endorser,
                                  submitted |-> cli[p].submitted]
                 /\ quotes[old.id].status.kind = "Accepted"
            ELSE /\ id = old.id
                 /\ ~IsSome(cli[p].stored)
\* A request against an expired Accepted quote was given a new quote.
C8_Witness ==
    \E p \in Procs :
        /\ cli[p].pc = "gen_done"
        /\ IsSome(cli[p].found)
        /\ Unwrap(cli[p].found).status.kind = "Accepted"
        /\ Unwrap(cli[p].found).status.ttl < cli[p].submitted
        /\ IsSome(cli[p].stored)

\* C9: two generate calls for the same (bill, endorser) that race return the
\* same id, and not both of them store a quote.
C9_RaceSameId ==
    \A p, q \in Procs :
        (/\ p \in cli[q].raced
         /\ cli[p].pc = "gen_done"
         /\ cli[q].pc = "gen_done") =>
        /\ cli[p].id = cli[q].id
        /\ ~(IsSome(cli[p].stored) /\ IsSome(cli[q].stored))

\* C10: a stored quote is never removed, a stored quote whose status is
\* Declined or Accepted is never changed again, and update_if_pending with
\* a quote whose stored status is terminal, or whose id is not stored, leaves
\* the repository as it was.
C10_MonotonicStatus ==
    [][/\ \A id \in DOMAIN quotes :
            /\ id \in DOMAIN quotes'
            /\ ~IsPending(quotes[id].status) => quotes'[id] = quotes[id]
       /\ \A p \in Procs :
            (cli[p].pc = "res_applied" /\ cli'[p].pc = "idle") =>
                LET new == Unwrap(cli[p].copy)
                IN  (\/ new.id \notin DOMAIN quotes
                     \/ ~IsPending(quotes[new.id].status))
                    => quotes' = quotes]_vars
\* Two operators loaded the same Pending quote; one has written Accepted back
\* and the other is about to write Declined.
C10_Witness ==
    \E p \in Procs :
        /\ cli[p].pc = "res_applied"
        /\ Unwrap(cli[p].prev).status.kind = "Pending"
        /\ Unwrap(cli[p].copy).status.kind = "Declined"
        /\ Unwrap(cli[p].copy).id \in DOMAIN quotes
        /\ quotes[Unwrap(cli[p].copy).id].status.kind = "Accepted"

\* ---- the replacement cascade
RidDone == kcall.pc = "done" /\ kcall.op = "replacing_id"
Stored(kid) == kid \in DOMAIN tiers.maturity
StoredActive(kid) == Stored(kid) /\ tiers.maturity[kid].active
StoredInactive(kid) == Stored(kid) /\ ~tiers.maturity[kid].active
\* The rotations q >= from whose id is active while the ids of from..q-1 are
\* all stored and inactive: empty or one rotation.
FirstActiveFrom(date, from) ==
    {q \in from..(from + RotationModulus - 1) :
        /\ StoredActive(GenerateKeysetIdFromMaturityDate(date, q))
        /\ \A j \in from..(q - 1) :
              StoredInactive(GenerateKeysetIdFromMaturityDate(date, j))}
\* The chain scanned from `from` meets a missing id before any active one.
EndsWithoutActive(date, from) ==
    \E q \in from..(from + RotationModulus - 1) :
        /\ ~Stored(GenerateKeysetIdFromMaturityDate(date, q))
        /\ \A j \in from..(q - 1) :
              StoredInactive(GenerateKeysetIdFromMaturityDate(date, j))

\* C11: replacing_id on an id the endorsed tier holds with valid_to = T
\* returns the maturity id of the first active rotation of T counted from
\* rotation 0, the rotations below it being all stored and inactive.
C11_EndorsedToMaturity ==
    RidDone =>
        LET e == TierInfo(tiers.endorsed, kcall.kid)
        IN  (IsSome(e) /\ IsSome(Unwrap(e).valid_to)) =>
                \A q \in FirstActiveFrom(Unwrap(Unwrap(e).valid_to), 0) :
                    kcall.result = KResult("Ok",
                        Some(GenerateKeysetIdFromMaturityDate(
                                Unwrap(Unwrap(e).valid_to), q)))
\* An endorsed id was replaced by rotation 1, rotation 0 being inactive.
C11_Witness ==
    /\ RidDone
    /\ IsSome(TierInfo(tiers.endorsed, kcall.kid))
    /\ StoredInactive(ChainId(0))
    /\ kcall.result = KResult("Ok", Some(ChainId(1)))

\* C12: replacing_id on an id the endorsed tier does not hold and the
\* maturity tier holds returns that id when its info is active; when the
\* info is inactive with valid_to = T and derivation_path_index = r it
\* returns the id of the first active rotation of T counted from r + 1.
C12_MaturityFromId ==
    RidDone =>
        LET e == TierInfo(tiers.endorsed, kcall.kid)
            m == TierInfo(tiers.maturity, kcall.kid)
        IN  (~IsSome(e) /\ IsSome(m)) =>
                LET info == Unwrap(m)
                IN  IF info.active
                    THEN kcall.result = KResult("Ok", Some(kcall.kid))
                    ELSE (IsSome(info.valid_to) /\ IsSome(info.derivation_path_index)) =>
                            \A q \in FirstActiveFrom(Unwrap(info.valid_to),
                                        Unwrap(info.derivation_path_index) + 1) :
                                kcall.result = KResult("Ok",
                                    Some(GenerateKeysetIdFromMaturityDate(
                                            Unwrap(info.valid_to), q)))
\* An inactive maturity id with rotation 0 was replaced by rotation 1.
C12_Witness ==
    /\ RidDone
    /\ ~IsSome(TierInfo(tiers.endorsed, kcall.kid))
    /\ StoredInactive(kcall.kid)
    /\ tiers.maturity[kcall.kid].derivation_path_index = Some(0)
    /\ kcall.result = KResult("Ok", Some(ChainId(1)))
    /\ kcall.kid # ChainId(1)

EndorsedPathNone(kid) ==
    LET e == TierInfo(tiers.endorsed, kid)
    IN  \/ ~IsSome(e)
        \/ /\ IsSome(Unwrap(e).valid_to)
           /\ EndsWithoutActive(Unwrap(Unwrap(e).valid_to), 0)
MaturityPathNone(kid) ==
    LET m == TierInfo(tiers.maturity, kid)
    IN  \/ ~IsSome(m)
        \/ /\ ~Unwrap(m).active
           /\ IsSome(Unwrap(m).valid_to)
           /\ IsSome(Unwrap(m).derivation_path_index)
           /\ EndsWithoutActive(Unwrap(Unwrap(m).valid_to),
                                Unwrap(Unwrap(m).derivation_path_index) + 1)

C14_BoundedScan ==
    kcall.pc = "scan" =>
        kcall.hits <=
            Cardinality({r \in Rotations :
                Stored(GenerateKeysetIdFromMaturityDate(kcall.maturity, r))})

\* C15: keyset(id) and info(id) ask the endorsed, the maturity and the debit
\* tier in this order, stop at the first that holds id and return its
\* answer; the answer is None only when no tier holds id.
C15_FirstHit ==
    (kcall.pc = "done" /\ kcall.op \in {"info", "keyset"}) =>
        LET id == kcall.kid
            e == id \in DOMAIN tiers.endorsed
            m == id \in DOMAIN tiers.maturity
            d == id \in DOMAIN tiers.debit.keys
            tier == IF e THEN "endorsed" ELSE IF m THEN "maturity" ELSE "debit"
            held == IF e THEN tiers.endorsed[id]
                    ELSE IF m THEN tiers.maturity[id] ELSE tiers.debit.keys[id]
        IN  /\ kcall.consulted =
                 IF e THEN <<"endorsed">>
                 ELSE IF m THEN <<"endorsed", "maturity">>
                 ELSE <<"endorsed", "maturity", "debit">>
            /\ kcall.result.kind = "Ok"
            /\ IF e \/ m \/ d
               THEN kcall.result.value =
                      IF kcall.op = "info" THEN Some(held)
                      ELSE Some([id |-> id, tier |-> tier])
               ELSE kcall.result.value = None
\* info was asked for an id that the endorsed and the maturity tier hold
\* with different infos.
C15_Witness ==
    /\ kcall.pc = "done" /\ kcall.op = "info"
    /\ kcall.kid \in DOMAIN tiers.endorsed
    /\ kcall.kid \in DOMAIN tiers.maturity
    /\ tiers.endorsed[kcall.kid] # tiers.maturity[kcall.kid]
    /\ kcall.consulted = <<"endorsed">>

\* ---- the steps of a swap
KnownKeyset(proof) == IsSome(keys.load[proof.keyset_id])
KnownAmount(proof) ==
    KnownKeyset(proof) /\ proof.amount \in Unwrap(keys.load[proof.keyset_id]).amounts
Verifies(proof) ==
    proof.c = SignMessage(SecretKey(proof.keyset_id, proof.amount),
                          HashToCurve(proof.secret))
InputOk(proof) == KnownKeyset(proof) /\ KnownAmount(proof) /\ Verifies(proof)
\* The call passed steps 1 to 4: get_state answered Unspent for every input.
PassedUnspent(p) ==
    /\ swap[p].inputs # <<>>
    /\ Len(swap[p].states) = Len(swap[p].inputs)
    /\ \A i \in 1..Len(swap[p].states) : swap[p].states[i] = "Unspent"
Replacing(proof) == keys.replacing[proof.keyset_id]

\* C16: a swap runs its steps in the order non-empty inputs, no zero output,
\* conservation, unspent check, signature check, replacement resolution,
\* signing, spend: it returns the error of the first step that fails, has
\* called the repositories of the steps before it only, and none at all when
\* one of the first three fails.
C16_StepOrder ==
    \A p \in Procs : Done(p) =>
        LET ins == swap[p].inputs
            outs == swap[p].outputs
            kind == swap[p].result.kind
            calls == swap[p].calls
            st == swap[p].states
            empty == ins = <<>>
            zero == \E i \in 1..Len(outs) : outs[i].amount = 0
            unmatched == TotalAmount(ins) # TotalAmount(outs)
            spent == \E i \in 1..Len(st) : st[i] # "Unspent"
            badsig == \E i \in 1..Len(ins) : ~InputOk(ins[i])
            norepl == \E i \in 1..Len(ins) : ~IsSome(Replacing(ins[i]))
            unmerge == \E i \in 1..Len(ins) : Replacing(ins[i]) # Replacing(ins[1])
        IN  IF empty \/ zero THEN kind = "ZeroAmount" /\ calls = <<>>
            ELSE IF unmatched THEN kind = "UnmatchingAmount" /\ calls = <<>>
            ELSE IF kind = "ProofRepository" THEN calls = <<"get_state">>
            ELSE IF spent
                 THEN kind = "ProofsAlreadySpent" /\ calls = <<"get_state">>
            ELSE IF kind = "KeysetRepository"
                 THEN calls \in {<<"get_state", "load">>,
                                 <<"get_state", "load", "replacing_id">>,
                                 <<"get_state", "load", "replacing_id", "load">>}
            ELSE IF badsig
                 THEN /\ kind \in {"UnknownKeyset", "UnknownAmountForKeyset",
                                   "UnknownProofs"}
                      /\ calls = <<"get_state", "load">>
            ELSE IF norepl \/ unmerge
                 THEN /\ kind \in {"UnknownKeyset", "UnmergeableProofs"}
                      /\ calls = <<"get_state", "load", "replacing_id">>
            ELSE IF kind # "Ok"
                 THEN /\ kind \in {"UnknownAmountForKeyset", "Panic"}
                      /\ calls = <<"get_state", "load", "replacing_id", "load">>
            ELSE calls = <<"get_state", "load", "replacing_id", "load", "spend">>
\* A swap with an output of amount zero, and outputs whose total differs from
\* the inputs', was refused for the zero amount.
C16_Witness ==
    \E p \in Procs :
        /\ Returned(p, "ZeroAmount")
        /\ swap[p].inputs # <<>>
        /\ \E i \in 1..Len(swap[p].outputs) : swap[p].outputs[i].amount = 0
        /\ TotalAmount(swap[p].inputs) # TotalAmount(swap[p].outputs)

\* C17: a swap for which get_state answers a state other than Unspent for an
\* input returns ProofsAlreadySpent, having called get_state only: no keyset
\* is loaded and spend is not called.
C17_UnspentCheck ==
    \A p \in Procs :
        (Done(p) /\ \E i \in 1..Len(swap[p].states) : swap[p].states[i] # "Unspent") =>
            /\ swap[p].result.kind = "ProofsAlreadySpent"
            /\ swap[p].calls = <<"get_state">>
            /\ swap[p].spends = <<>>
\* A swap of a proof that get_state reports Reserved was refused.
C17_Witness ==
    \E p \in Procs :
        /\ Returned(p, "ProofsAlreadySpent")
        /\ \E i \in 1..Len(swap[p].states) : swap[p].states[i] = "Reserved"

\* C18 as stated: a swap that passes steps 1 to 4 and has an input with an
\* unknown keyset returns UnknownKeyset wherever that input stands, and one
\* whose keysets are all known and that has an input whose amount has no key
\* returns UnknownAmountForKeyset.
C18_Original ==
    \A p \in Procs :
        (Done(p) /\ PassedUnspent(p) /\ swap[p].result.kind # "KeysetRepository") =>
            LET ins == swap[p].inputs
            IN  /\ (\E i \in 1..Len(ins) : ~KnownKeyset(ins[i]))
                       => swap[p].result.kind = "UnknownKeyset"
                /\ ((\A i \in 1..Len(ins) : KnownKeyset(ins[i]))
                     /\ (\E i \in 1..Len(ins) : ~KnownAmount(ins[i])))
                       => swap[p].result.kind = "UnknownAmountForKeyset"
\* C18 amended: a swap that passes steps 1 to 4 returns the error of the
\* first input, in input order, that fails the signature check:
\* UnknownKeyset(id) when its keyset is unknown, UnknownAmountForKeyset(id,
\* amount) when its amount has no key, UnknownProofs when its signature does
\* not verify.
C18_FirstFailingInput ==
    \A p \in Procs :
        (Done(p) /\ PassedUnspent(p) /\ swap[p].result.kind # "KeysetRepository") =>
            LET ins == swap[p].inputs
                bad == {i \in 1..Len(ins) : ~InputOk(ins[i])}
            IN  \A i \in bad :
                    (\A j \in bad : i <= j) =>
                        swap[p].result =
                            IF ~KnownKeyset(ins[i])
                            THEN Result("UnknownKeyset", <<ins[i].keyset_id>>)
                            ELSE IF ~KnownAmount(ins[i])
                            THEN Result("UnknownAmountForKeyset",
                                        <<ins[i].keyset_id, ins[i].amount>>)
                            ELSE Result("UnknownProofs", <<>>)
\* A swap whose second input has an unknown keyset returned the error of its
\* first input.
C18_Witness ==
    \E p \in Procs :
        /\ Done(p) /\ PassedUnspent(p)
        /\ Len(swap[p].inputs) > 1
        /\ ~KnownKeyset(swap[p].inputs[2])
        /\ swap[p].result.kind \in {"UnknownProofs", "UnknownAmountForKeyset"}

\* C19: a swap that passes steps 1 to 4, whose inputs all have a known keyset
\* and amount, and one of whose inputs does not verify against its keyset's
\* key returns UnknownProofs; a swap returns Ok only if every input verifies.
C19_BadSignature ==
    \A p \in Procs : Done(p) =>
        LET ins == swap[p].inputs
        IN  /\ (/\ PassedUnspent(p)
                /\ swap[p].result.kind # "KeysetRepository"
                /\ \A i \in 1..Len(ins) : KnownAmount(ins[i])
                /\ \E i \in 1..Len(ins) : ~Verifies(ins[i]))
               => swap[p].result = Result("UnknownProofs", <<>>)
            /\ swap[p].result.kind = "Ok" =>
                  \A i \in 1..Len(ins) : InputOk(ins[i])
\* A swap whose first input verifies and whose second does not was refused.
C19_Witness ==
    \E p \in Procs :
        /\ Returned(p, "UnknownProofs")
        /\ Len(swap[p].inputs) > 1
        /\ Verifies(swap[p].inputs[1])
        /\ ~Verifies(swap[p].inputs[2])

\* C20: a swap returns Ok only if replacing_id answers the same Some(id) for
\* every input; a swap that reaches the replacement resolution returns
\* UnknownKeyset when replacing_id answers None for an input, and
\* UnmergeableProofs when the answers are not all equal.
C20_ReplacementResolution ==
    \A p \in Procs : Done(p) =>
        LET ins == swap[p].inputs
            none == {i \in 1..Len(ins) : ~IsSome(Replacing(ins[i]))}
        IN  /\ swap[p].result.kind = "Ok" =>
                  \A i \in 1..Len(ins) :
                      IsSome(Replacing(ins[i])) /\ Replacing(ins[i]) = Replacing(ins[1])
            /\ (/\ Len(swap[p].calls) >= 3
                /\ swap[p].calls[3] = "replacing_id"
                /\ swap[p].result.kind # "KeysetRepository") =>
                  /\ none # {} => swap[p].result.kind = "UnknownKeyset"
                  /\ (none = {} /\ \E i \in 1..Len(ins) :
                                      Replacing(ins[i]) # Replacing(ins[1]))
                        => swap[p].result = Result("UnmergeableProofs", <<>>)
\* A swap whose inputs all verified was refused because replacing_id answered
\* None for its second input.
C20_Witness ==
    \E p \in Procs :
        /\ Returned(p, "UnknownKeyset")
        /\ swap[p].calls = <<"get_state", "load", "replacing_id">>
        /\ Len(swap[p].inputs) > 1
        /\ IsSome(Replacing(swap[p].inputs[1]))
        /\ ~IsSome(Replacing(swap[p].inputs[2]))

\* ---- the result of a swap
\* C21: a swap that returns Ok returns one blind signature per output, in
\* the order of the outputs, each with the amount of its output, signed with
\* the key of the replacement keyset for that amount and carrying the id of
\* the replacement keyset, which is the replacement of every input.
C21_SignaturePerOutput ==
    \A p \in Procs :
        Returned(p, "Ok") =>
            LET call == swap[p]
                repl == Replacing(call.inputs[1])
            IN  /\ IsSome(repl)
                /\ \A j \in 1..Len(call.inputs) : Replacing(call.inputs[j]) = repl
                /\ Len(call.result.info) = Len(call.outputs)
                /\ \A i \in 1..Len(call.outputs) :
                      call.result.info[i] =
                          [amount |-> call.outputs[i].amount,
                           c |-> SignMessage(
                                   SecretKey(Unwrap(repl), call.outputs[i].amount),
                                   call.outputs[i].blinded_secret),
                           keyset_id |-> Unwrap(repl)]

\* A swap of two inputs for two outputs of different amounts returned Ok
\* with signatures of a keyset other than the first input's.
C21_Witness ==
    /\ Returned("a", "Ok")
    /\ Len(swap["a"].inputs) = 2
    /\ Len(swap["a"].outputs) = 2
    /\ swap["a"].outputs[1].amount # swap["a"].outputs[2].amount
    /\ swap["a"].result.info[1].keyset_id # swap["a"].inputs[1].keyset_id

C23_EmptyInputs ==
    \A p \in Procs :
        (swap[p].pc # "idle" /\ swap[p].inputs = <<>>) =>
            /\ Returned(p, "ZeroAmount")
            /\ swap[p].calls = <<>>
            /\ swap[p].spends = <<>>

\* A swap with no input and no output returned ZeroAmount.
C23_Witness ==
    /\ Returned("a", "ZeroAmount")
    /\ swap["a"].inputs = <<>>
    /\ swap["a"].outputs = <<>>

\* C24: no swap returns Ok when an input or an output has amount zero, and
\* a swap with inputs and a zero-amount output returns ZeroAmount without a
\* repository call, whether or not its totals match.
C24_NoZeroAmount ==
    \A p \in Procs :
        LET call == swap[p]
            zeroOutput == \E i \in 1..Len(call.outputs) : call.outputs[i].amount = 0
            zeroInput == \E i \in 1..Len(call.inputs) : call.inputs[i].amount = 0
        IN  /\ Returned(p, "Ok") => (~zeroOutput /\ ~zeroInput)
            /\ (call.pc # "idle" /\ call.inputs # <<>> /\ zeroOutput) =>
                  (Returned(p, "ZeroAmount") /\ call.calls = <<>>)

\* A swap with a zero-amount input, matching totals and unspent inputs was
\* refused at the signature check.
C24_Witness ==
    /\ Done("a")
    /\ \E i \in 1..Len(swap["a"].inputs) : swap["a"].inputs[i].amount = 0
    /\ TotalAmount(swap["a"].inputs) = TotalAmount(swap["a"].outputs)
    /\ TotalAmount(swap["a"].outputs) > 0
    /\ PassedUnspent("a")
    /\ swap["a"].result.kind = "UnknownAmountForKeyset"

\* C30: a swap whose input list holds the same secret twice does not
\* return Ok.
C30_NoRepeatedInput ==
    \A p \in Procs :
        Returned(p, "Ok") =>
            \A i, j \in 1..Len(swap[p].inputs) :
                i # j => swap[p].inputs[i].secret # swap[p].inputs[j].secret

\* C29: the rotation scan never calls generate_keyset_id_from_maturity_date
\* with a rotation index that does not fit the rotation field of the id, and
\* never answers with an id made from one.
C29_RotationFits ==
    (kcall.op = "replacing_id" /\ kcall.pc \in {"scan", "done"}) =>
        kcall.rotation_idx < RotationModulus

\* ---- the keyset factory
FOk(p) == fcall[p].pc = "done" /\ fcall[p].result.kind = "Ok"

\* C25: generate first stores the quote keyset in the quote-keys tier under
\* (keysetID, quoteID) with an info that has id = keysetID, active = false
\* and valid_to = the maturity date; the maturity keyset is created only
\* after that, and the keyset returned is the stored quote keyset, not the
\* maturity keyset, whether or not a maturity keyset was created.
C25_QuoteKeysetFirst ==
    \A p \in Procs :
        LET call == fcall[p]
            k == <<call.keysetid, call.quote>>
        IN  /\ (call.pc \in {"info", "store"} \/ FOk(p) \/ call.created) =>
                  /\ k \in DOMAIN qkeys
                  /\ qkeys[k].info.id = call.keysetid
                  /\ qkeys[k].info.active = FALSE
                  /\ qkeys[k].info.valid_to = Some(call.bill_maturity_date)
                  /\ qkeys[k].keyset.id = call.keysetid
            /\ FOk(p) =>
                  /\ call.result.value = Some(qkeys[k].keyset)
                  /\ Unwrap(call.result.value).keys #
                        MaturityKeyset(Xpriv(FactorySeed), call.bill_maturity_date).keys

\* One call created the maturity keyset of its day and another, for a bill
\* of the same day, found it; both returned Ok.
C25_Witness ==
    /\ FOk("a") /\ fcall["a"].created
    /\ FOk("b") /\ ~fcall["b"].created
    /\ fcall["a"].quote # fcall["b"].quote

\* C26: in any interleaving of generate calls an entry of the maturity tier
\* is never overwritten: once stored it stays as it is.
C26_MaturityNeverOverwritten ==
    [][\A k \in DOMAIN tiers.maturity :
          /\ k \in DOMAIN tiers'.maturity
          /\ tiers'.maturity[k] = tiers.maturity[k]]_vars

\* C27: the maturity tier never holds two active keysets for the same
\* maturity day and rotation, every generate that returned Ok has an
\* active rotation-0 keyset for the day of its bill, and the bills of one
\* day share it.
C27_OneActivePerMaturity ==
    LET m == tiers.maturity
    IN  /\ \A k1, k2 \in DOMAIN m :
              (/\ m[k1].active /\ m[k2].active
               /\ Unwrap(m[k1].valid_to) \div SecsPerDay =
                     Unwrap(m[k2].valid_to) \div SecsPerDay
               /\ m[k1].derivation_path_index = m[k2].derivation_path_index)
              => k1 = k2
        /\ \A p \in Procs :
              FOk(p) =>
                  \E k \in DOMAIN m :
                      /\ m[k].active
                      /\ m[k].derivation_path_index = Some(0)
                      /\ Unwrap(m[k].valid_to) \div SecsPerDay =
                            fcall[p].bill_maturity_date \div SecsPerDay

\* Two bills that mature on the same day at different times both have
\* their keysets, and the maturity tier holds one entry.
C27_Witness ==
    /\ FOk("a") /\ FOk("b")
    /\ fcall["a"].bill_maturity_date # fcall["b"].bill_maturity_date
    /\ fcall["a"].bill_maturity_date \div SecsPerDay =
          fcall["b"].bill_maturity_date \div SecsPerDay
    /\ Cardinality(DOMAIN tiers.maturity) = 1

C31_ReplacementActive ==
    (RidDone /\ kcall.result.kind = "Ok" /\ IsSome(kcall.result.value)) =>
        LET info == SwapRepositoryInfo(tiers, Unwrap(kcall.result.value)).value
        IN  IsSome(info) /\ Unwrap(info).active

\* C33: replacing_id returns Ok or an error and never aborts: every info it
\* reads valid_to or derivation_path_index from has the field set.
C33_NoAbort ==
    kcall.op = "replacing_id" => kcall.result.kind # "Panic"

\* C32: replacing_id is idempotent on a fixed state of the tiers: called on
\* the id r it returned, it returns Some(r).
C32_Idempotent ==
    (kcall.pc = "done" /\ kcall.op = "replacing_id again") =>
        kcall.result = KResult("Ok", Some(kcall.kid))

\* C32, amended: replacing_id is idempotent on a fixed state of the tiers in
\* which no id is held by two tiers: called on the id r it returned, it
\* returns Some(r).
C32_IdempotentDisjoint ==
    (/\ kcall.pc = "done" /\ kcall.op = "replacing_id again"
     /\ DOMAIN tiers.endorsed \cap DOMAIN tiers.maturity = {}
     /\ DOMAIN tiers.endorsed \cap DOMAIN tiers.debit.keys = {}
     /\ DOMAIN tiers.maturity \cap DOMAIN tiers.debit.keys = {}) =>
        kcall.result = KResult("Ok", Some(kcall.kid))

\* The id of rotation 1, returned in place of an inactive rotation 0, was
\* passed to replacing_id again and returned.
C32_Witness ==
    /\ kcall.pc = "done" /\ kcall.op = "replacing_id again"
    /\ DOMAIN tiers.endorsed \cap DOMAIN tiers.maturity = {}
    /\ DOMAIN tiers.endorsed \cap DOMAIN tiers.debit.keys = {}
    /\ DOMAIN tiers.maturity \cap DOMAIN tiers.debit.keys = {}
    /\ StoredInactive(ChainId(0))
    /\ kcall.kid = ChainId(1)
    /\ kcall.result = KResult("Ok", Some(ChainId(1)))

\* C34: the id of a maturity date and a rotation that fits the field gives
\* back, through extract_maturity_and_rotatingidx_from_id, a date of the
\* same day and the same rotation: made into an id again they give the id
\* they were read from.
C34_RoundTrip ==
    (kcall.pc = "done" /\ kcall.op = "extract") =>
        LET r == kcall.result.value
        IN  /\ r[2] \in Rotations
            /\ GenerateKeysetIdFromMaturityDate(r[1], r[2]) = kcall.kid

\* C36: after generate returned Ok the maturity tier holds the info of the
\* rotation-0 id of the maturity date, so the rotation scan of that date
\* does not stop at rotation 0 for want of an entry; this holds for a
\* generate that follows one that stopped between its two stores.
C36_MaturityAfterGenerate ==
    \A p \in Procs :
        FOk(p) =>
            LET date == fcall[p].bill_maturity_date
            IN  /\ IsSome(TierInfo(tiers.maturity,
                                   GenerateKeysetIdFromMaturityDate(date, 0)))
                /\ ScanStep(tiers.maturity, date, 0) # <<"missing">>

\* A generate stopped after it stored its quote keyset, on an Err of
\* maturing_keys.info; a later generate for a bill of the same day created
\* the maturity keyset.
C36_Witness ==
    /\ fcall["a"].pc = "done"
    /\ fcall["a"].result = KResult("Err", <<"maturing_keys.info">>)
    /\ <<fcall["a"].keysetid, fcall["a"].quote>> \in DOMAIN qkeys
    /\ FOk("b") /\ fcall["b"].created
    /\ NumDays(fcall["a"].bill_maturity_date) = NumDays(fcall["b"].bill_maturity_date)

\* C38: path construction never fails in generate: the day count of every
\* maturity date, taken as a u32, is a valid hardened index.
C38_ValidHardenedIndex ==
    \A p \in Procs : fcall[p].result.kind # "Panic"

\* C40: two calls for different (bill, endorser) pairs are not given the
\* same keyset id.
C40_SeparatesPairs ==
    \A p, q \in Procs :
        (fcall[p].pc # "idle" /\ fcall[q].pc # "idle"
         /\ fcall[p].bill # fcall[q].bill)
        => fcall[p].keysetid # fcall[q].keysetid

\* C35: accept and decline, successful or failed, leave id, bill, endorser
\* and submitted of the quote they are called on as they were, and no step
\* of generate, accept, decline or update_if_pending removes a stored quote
\* or changes the id, bill, endorser or submitted stored under an id.
C35_Frame ==
    [][/\ \A id \in DOMAIN quotes :
             /\ id \in DOMAIN quotes'
             /\ quotes'[id].id = quotes[id].id
             /\ quotes'[id].bill = quotes[id].bill
             /\ quotes'[id].endorser = quotes[id].endorser
             /\ quotes'[id].submitted = quotes[id].submitted
       /\ \A p \in Procs :
             (cli[p].pc = "res_loaded" /\ cli'[p].pc = "res_applied") =>
                LET before == Unwrap(cli[p].copy)
                    after == Unwrap(cli'[p].copy)
                IN  /\ after.id = before.id
                    /\ after.bill = before.bill
                    /\ after.endorser = before.endorser
                    /\ after.submitted = before.submitted]_vars

\* An accepted quote is stored with a ttl that is not its submission time,
\* while an accept on a copy of a resolved quote has failed.
C35_Witness ==
    /\ \E id \in DOMAIN quotes :
          /\ quotes[id].status.kind = "Accepted"
          /\ quotes[id].status.ttl # quotes[id].submitted
    /\ \E p \in Procs :
          /\ cli[p].pc = "res_applied"
          /\ cli[p].call[1] = "accept"
          /\ Unwrap(cli[p].res).kind = "QuoteAlreadyResolved"

\* C39: list_pendings(since) answers exactly the ids of the Pending quotes
\* submitted at or after since, list_accepteds(since) exactly the ids of
\* the Accepted quotes submitted at or after since, and with since absent
\* each answers all quotes of that status.
C39_ListingsExact ==
    \A p \in Procs :
        (cli[p].pc = "idle" /\ Len(cli[p].call) = 2) =>
            LET op == cli[p].call[1]
                since == cli[p].call[2]
                kind == IF op = "list_pendings" THEN "Pending" ELSE "Accepted"
            IN  Unwrap(cli[p].res) =
                    {id \in DOMAIN quotes :
                        /\ quotes[id].status.kind = kind
                        /\ IsSome(since) => quotes[id].submitted >= Unwrap(since)}

====
